---------------------------- MODULE Spec2Model ----------------------------
(***************************************************************************)
(* Model of the snek game: GameController and Snake / SnakeSegment of      *)
(* src/src/app/snek-module/game/game-controller.ts.  Board, FoodDispenser, *)
(* PlayerMovementProcessor and Vector2 are imported by that file but are   *)
(* not part of it; they are modelled from spec.md (sections 4.1, 4.2, 4.4).*)
(*                                                                         *)
(* Two specifications:                                                     *)
(*   Spec      the tick is Snake.update exactly as written in the source   *)
(*             (lines 162-173): no food check, eat() is never called.      *)
(*   SpecFood  the tick is Snake.update followed by the food check of      *)
(*             spec.md section 4.3 step 6, which calls Snake.eat().        *)
(***************************************************************************)
EXTENDS Integers, Sequences, FiniteSets, TLC

(* ------------------------------ bounds --------------------------------- *)
\* Board width in cells.  The source sets 9 (line 22); scaled down.
BoardNumCellsWide == 3
\* Number of growSegment() calls in resetForStart.  The source has 10
\* (lines 252-261); scaled down.
NumStartGrowths == 5
\* Ticks modelled per play session.
MaxTicks == 8
\* Ticks modelled between two frames that bring the draw positions up to date.
MaxFrameLag == 1

(* ------------------------------ values --------------------------------- *)
MainMenu == "MainMenu"
Playing == "Playing"
GameOver == "GameOver"
Victorious == "Victorious"
GameState == {MainMenu, Playing, GameOver, Victorious}

arrowKeys == {"ArrowUp", "ArrowDown", "ArrowLeft", "ArrowRight"}
spaceCode == "Space"
\* Key events: the four arrows, Space, and one representative other key.
Keys == arrowKeys \cup {spaceCode, "KeyA"}

NoPrey == <<>>
NoDir == <<>>
NoKey == ""

Up == <<0, -1>>
Down == <<0, 1>>
Left == <<-1, 0>>
Right == <<1, 0>>
Dirs == {Up, Down, Left, Right}

\* Vector2.add
Add(a, b) == <<a[1] + b[1], a[2] + b[2]>>

\* MyMath.lerp(a, b, t) for the clamped factors t = 0 and t = 1
Lerp(a, b, t) == a + (b - a) * t

(* ------------------------------ Board ---------------------------------- *)
AllCells == (0 .. BoardNumCellsWide - 1) \X (0 .. BoardNumCellsWide - 1)

cellIsInsideBoard(cell) ==
    /\ cell[1] >= 0 /\ cell[1] < BoardNumCellsWide
    /\ cell[2] >= 0 /\ cell[2] < BoardNumCellsWide

getCenterCell == <<BoardNumCellsWide \div 2, BoardNumCellsWide \div 2>>

SegmentCells(segs) == {segs[i] : i \in DOMAIN segs}

getUnoccupiedCells(segs, food) ==
    AllCells \ (SegmentCells(segs) \cup (IF food = NoPrey THEN {} ELSE {food}))

(* ----------------------- PlayerMovementProcessor ----------------------- *)
KeyDir(k) ==
    CASE k = "ArrowUp" -> Up
      [] k = "ArrowDown" -> Down
      [] k = "ArrowLeft" -> Left
      [] k = "ArrowRight" -> Right
      [] OTHER -> NoDir

Opposite(d) == <<0 - d[1], 0 - d[2]>>

\* onKeyDown: the new buffered direction.  A reversal of the committed
\* direction, and a key that is no arrow, are dropped.
movementOnKeyDownNoCheck(cur, pend, k) ==
    IF k \in arrowKeys THEN KeyDir(k) ELSE pend

movementOnKeyDown(cur, pend, k) ==
    IF k \in arrowKeys /\ KeyDir(k) # Opposite(cur) THEN KeyDir(k) ELSE pend

\* updateDirection: the direction committed for this tick.
updateDirection(cur, pend) == IF pend # NoDir THEN pend ELSE cur

(* --------------------------- SnakeSegment ------------------------------ *)
\* followSegment of segment i (1 = head): the head has no nextSegment.
followSegment(segs, i) ==
    IF i = 1 THEN segs ELSE [segs EXCEPT ![i] = segs[i - 1]]

\* [...snakeSegments].reverse().forEach(followSegment), from index i down.
RECURSIVE FollowFromTail(_, _)
FollowFromTail(segs, i) ==
    IF i = 0 THEN segs ELSE FollowFromTail(followSegment(segs, i), i - 1)

\* the same loop run from the head to the tail
RECURSIVE FollowFromHead(_, _)
FollowFromHead(segs, i) ==
    IF i > Len(segs) THEN segs ELSE FollowFromHead(followSegment(segs, i), i + 1)

(* ------------------------------- Snake --------------------------------- *)
cellIsInsidePlayerNoTailSkip(segs, tgtCell) ==
    \E i \in 2 .. Len(segs) : segs[i] = tgtCell

\* for (i = 1; i < length - 1; i++), 0-based: indices 2 .. Len-1 here.
cellIsInsidePlayer(segs, tgtCell) ==
    \E i \in 2 .. Len(segs) - 1 : segs[i] = tgtCell

moveInDirectionHeadFirst(segs, dir) ==
    LET followed == FollowFromHead(segs, 1)
    IN  [followed EXCEPT ![1] = Add(followed[1], dir)]

moveInDirection(segs, dir) ==
    LET followed == FollowFromTail(segs, Len(segs))
    IN  [followed EXCEPT ![1] = Add(followed[1], dir)]

growSegmentAtHead(segs) == Append(segs, segs[1])

growSegment(segs) == Append(segs, segs[Len(segs)])

RECURSIVE GrowTimes(_, _)
GrowTimes(segs, n) == IF n = 0 THEN segs ELSE GrowTimes(growSegment(segs), n - 1)

resetForStartOneLess == GrowTimes(<<getCenterCell>>, NumStartGrowths - 1)

resetForStart == GrowTimes(<<getCenterCell>>, NumStartGrowths)

(* ------------------------------ state ---------------------------------- *)
VARIABLES
    gameState,        \* GameController._gameState
    score,            \* GameController.score
    timers,           \* number of interval timers registered with the window
    gameIntervalLive, \* gameIntervalId names a registered timer
    snakeSegments,    \* tgtCellPos of each segment, head first
    drawCellPos,      \* drawCellPos of each segment, head first
    curDir,           \* movement processor: committed direction
    pendingDir,       \* movement processor: buffered direction, or NoDir
    prey,             \* the active food cell, or NoPrey
    deathSignals,     \* emissions of deathSubject since the last reset
    ticks,            \* Snake.update calls since the last reset
    staleTicks,       \* Snake.update calls since the draw positions were current
    lastKey           \* the key whose handler changed the game state in the
                      \* last step; NoKey after any other step

vars == <<gameState, score, timers, gameIntervalLive, snakeSegments,
          drawCellPos, curDir, pendingDir, prey, deathSignals, ticks,
          staleTicks, lastKey>>

snakeHeadSegment == snakeSegments[1]
snakeTailSegment == snakeSegments[Len(snakeSegments)]
NumUnoccupied == Cardinality(getUnoccupiedCells(snakeSegments, prey))

TypeOK ==
    /\ gameState \in GameState
    /\ score \in Nat
    /\ timers \in Nat
    /\ gameIntervalLive \in BOOLEAN
    /\ snakeSegments \in Seq(Int \X Int)
    /\ Len(drawCellPos) = Len(snakeSegments)
    /\ curDir \in Dirs
    /\ pendingDir \in Dirs \cup {NoDir}
    /\ prey \in AllCells \cup {NoPrey}
    /\ deathSignals \in Nat
    /\ ticks \in 0 .. MaxTicks
    /\ staleTicks \in 0 .. MaxFrameLag
    /\ lastKey \in Keys \cup {NoKey}

(* --------------------------- GameController ---------------------------- *)
\* resetGame: preyDispenser.reset, board.reset, player.reset, score = 0,
\* spawnPrey.  The snake is reset before the food is spawned.
resetGameKeepScore ==
    /\ snakeSegments' = resetForStart
    /\ drawCellPos' = resetForStart
    /\ score' = score
    /\ prey' \in getUnoccupiedCells(resetForStart, NoPrey)
    /\ deathSignals' = 0
    /\ ticks' = 0
    /\ staleTicks' = 0

resetGame ==
    /\ snakeSegments' = resetForStart
    /\ drawCellPos' = resetForStart
    /\ score' = 0
    /\ prey' \in getUnoccupiedCells(resetForStart, NoPrey)
    /\ deathSignals' = 0
    /\ ticks' = 0
    /\ staleTicks' = 0

Init ==
    /\ gameState = MainMenu
    /\ score = 0
    /\ timers = 0
    /\ gameIntervalLive = FALSE
    /\ snakeSegments = resetForStart
    /\ drawCellPos = resetForStart
    /\ curDir \in Dirs
    /\ pendingDir = NoDir
    /\ prey \in getUnoccupiedCells(resetForStart, NoPrey)
    /\ deathSignals = 0
    /\ ticks = 0
    /\ staleTicks = 0
    /\ lastKey = NoKey

\* window.clearInterval(gameIntervalId): the timers left registered
clearIntervalKeep(n, live) == n

clearInterval(n, live) == IF live THEN n - 1 ELSE n

\* gameOver(won): the new game state
gameOverSwapped(won) == IF won THEN GameOver ELSE Victorious

gameOver(won) == IF won THEN Victorious ELSE GameOver

\* startGame: forward the key, enter Playing, start the update loop
startGame(k) ==
    /\ pendingDir' = movementOnKeyDown(curDir, pendingDir, k)
    /\ gameState' = Playing
    /\ timers' = timers + 1
    /\ gameIntervalLive' = TRUE
    /\ lastKey' = k
    /\ UNCHANGED <<score, snakeSegments, drawCellPos, curDir, prey,
                   deathSignals, ticks, staleTicks>>

goToMainMenu(k) ==
    /\ gameState' = MainMenu
    /\ resetGame
    /\ lastKey' = k
    /\ UNCHANGED <<timers, gameIntervalLive, curDir, pendingDir>>

\* the state in which a key starts a game
StartsGameAnyKey(state, k) == state = MainMenu

StartsGameNotPlaying(state, k) == k \in arrowKeys

StartsGame(state, k) == state = MainMenu /\ k \in arrowKeys


\* the state in which a key returns to the main menu
ReturnsToMenuAnyKey(state, k) == state \in {GameOver, Victorious}

ReturnsToMenu(state, k) == state \in {GameOver, Victorious} /\ k = spaceCode

onKeyDown(k) ==
    IF gameState = Playing
    THEN /\ pendingDir' = movementOnKeyDown(curDir, pendingDir, k)
         /\ lastKey' = NoKey
         /\ UNCHANGED <<gameState, score, timers, gameIntervalLive,
                        snakeSegments, drawCellPos, curDir, prey,
                        deathSignals, ticks, staleTicks>>
    ELSE IF StartsGame(gameState, k)
    THEN startGame(k)
    ELSE IF ReturnsToMenu(gameState, k)
    THEN goToMainMenu(k)
    ELSE /\ lastKey' = NoKey
         /\ UNCHANGED <<gameState, score, timers, gameIntervalLive,
                        snakeSegments, drawCellPos, curDir, pendingDir, prey,
                        deathSignals, ticks, staleTicks>>

\* draw(timeDeltaS): every segment's draw position moves towards its target
\* cell by the factor min(timeDelta * 20, 1); t = 0 is a zero or non-numeric
\* elapsed time, t = 1 an elapsed time of 50 ms or more.
drawMovesTargets(t) ==
    /\ snakeSegments' = [i \in DOMAIN snakeSegments |->
                         <<Lerp(snakeSegments[i][1], drawCellPos[i][1], t),
                           Lerp(snakeSegments[i][2], drawCellPos[i][2], t)>>]
    /\ staleTicks' = IF t = 1 THEN 0 ELSE staleTicks
    /\ lastKey' = NoKey
    /\ UNCHANGED <<gameState, score, timers, gameIntervalLive, drawCellPos,
                   curDir, pendingDir, prey, deathSignals, ticks>>

draw(t) ==
    /\ drawCellPos' = [i \in DOMAIN drawCellPos |->
                         <<Lerp(drawCellPos[i][1], snakeSegments[i][1], t),
                           Lerp(drawCellPos[i][2], snakeSegments[i][2], t)>>]
    /\ staleTicks' = IF t = 1 THEN 0 ELSE staleTicks
    /\ lastKey' = NoKey
    /\ UNCHANGED <<gameState, score, timers, gameIntervalLive, snakeSegments,
                   curDir, pendingDir, prey, deathSignals, ticks>>

\* Snake.update's death check
DiesOffBoardOnly(segs, tgtCell) == ~cellIsInsideBoard(tgtCell)

Dies(segs, tgtCell) ==
    ~cellIsInsideBoard(tgtCell) \/ cellIsInsidePlayer(segs, tgtCell)

\* the direction Snake.update commits in this state, and its candidate cell
MoveDirection == updateDirection(curDir, pendingDir)
CandidateCellNoAdd == snakeHeadSegment

CandidateCell == Add(snakeHeadSegment, MoveDirection)

\* Snake.update, lines 162-173.  die() emits on deathSubject, whose subscriber
\* runs gameOver(false); die() does not return from update, so the move
\* follows in every case.
update ==
    LET dead == Dies(snakeSegments, CandidateCell)
    IN  [segs |-> moveInDirection(snakeSegments, MoveDirection),
         state |-> IF dead THEN gameOver(FALSE) ELSE gameState,
         timers |-> IF dead THEN clearInterval(timers, gameIntervalLive)
                            ELSE timers,
         live |-> IF dead THEN FALSE ELSE gameIntervalLive,
         deaths |-> IF dead THEN deathSignals + 1 ELSE deathSignals]

\* onPreyEaten, entered with the controller state st, tm, lv and the chain segs
onPreyEatenNoScore(segs, st, tm, lv) ==
    /\ score' = score
    /\ LET unoccupied == getUnoccupiedCells(segs, prey)
       IN  IF Cardinality(unoccupied) > 0
           THEN /\ prey' \in unoccupied
                /\ gameState' = st
                /\ timers' = tm
                /\ gameIntervalLive' = lv
           ELSE /\ prey' = prey
                /\ gameState' = gameOver(TRUE)
                /\ timers' = clearInterval(tm, lv)
                /\ gameIntervalLive' = FALSE

onPreyEaten(segs, st, tm, lv) ==
    /\ score' = score + 1
    /\ LET unoccupied == getUnoccupiedCells(segs, prey)
       IN  IF Cardinality(unoccupied) > 0
           THEN /\ prey' \in unoccupied
                /\ gameState' = st
                /\ timers' = tm
                /\ gameIntervalLive' = lv
           ELSE /\ prey' = prey
                /\ gameState' = gameOver(TRUE)
                /\ timers' = clearInterval(tm, lv)
                /\ gameIntervalLive' = FALSE

\* Snake.eat: growSegment, then the controller's food-eaten handler
eat(segs, draws, st, tm, lv) ==
    /\ snakeSegments' = growSegment(segs)
    /\ drawCellPos' = Append(draws, segs[Len(segs)])
    /\ onPreyEaten(growSegment(segs), st, tm, lv)

\* doGameUpdate as the interval callback: Snake.update as the source has it
doGameUpdate ==
    /\ timers > 0
    /\ ticks < MaxTicks
    /\ staleTicks < MaxFrameLag
    /\ curDir' = MoveDirection
    /\ pendingDir' = NoDir
    /\ ticks' = ticks + 1
    /\ staleTicks' = staleTicks + 1
    /\ lastKey' = NoKey
    /\ deathSignals' = update.deaths
    /\ snakeSegments' = update.segs
    /\ gameState' = update.state
    /\ timers' = update.timers
    /\ gameIntervalLive' = update.live
    /\ UNCHANGED <<score, prey, drawCellPos>>

\* doGameUpdate with the food check of spec.md 4.3 step 6 after the move:
\* the head on the food cell calls eat()
doGameUpdateFood ==
    /\ timers > 0
    /\ ticks < MaxTicks
    /\ staleTicks < MaxFrameLag
    /\ curDir' = MoveDirection
    /\ pendingDir' = NoDir
    /\ ticks' = ticks + 1
    /\ staleTicks' = staleTicks + 1
    /\ lastKey' = NoKey
    /\ deathSignals' = update.deaths
    /\ IF update.segs[1] = prey
       THEN eat(update.segs, drawCellPos, update.state, update.timers,
                update.live)
       ELSE /\ snakeSegments' = update.segs
            /\ gameState' = update.state
            /\ timers' = update.timers
            /\ gameIntervalLive' = update.live
            /\ UNCHANGED <<score, prey, drawCellPos>>

Next ==
    \/ \E k \in Keys : onKeyDown(k)
    \/ doGameUpdate
    \/ \E t \in {0, 1} : draw(t)

Spec == Init /\ [][Next]_vars

NextFood ==
    \/ \E k \in Keys : onKeyDown(k)
    \/ doGameUpdateFood
    \/ \E t \in {0, 1} : draw(t)

SpecFood == Init /\ [][NextFood]_vars

(* ------------------------------ claims --------------------------------- *)
\* a step that is one call of Snake.update
IsTick == ticks' = ticks + 1
\* a step in which die() emitted on deathSubject
SignalsDeath == deathSignals' = deathSignals + 1
\* a step in which the controller's food-eaten handler ran
FoodEaten == score' = score + 1
NumSegments == Len(snakeSegments)
OffBoard(cell) ==
    cell[1] < 0 \/ cell[2] < 0
        \/ cell[1] >= BoardNumCellsWide \/ cell[2] >= BoardNumCellsWide
\* the candidate cell is the target cell of a segment other than the tail
HitsBodyButTail == \E i \in 1 .. NumSegments - 1 : snakeSegments[i] = CandidateCell
AllDistinct == Cardinality(SegmentCells(snakeSegments)) = NumSegments

\* C1: a tick whose candidate head cell is outside the board or collides with
\* the body signals death and leaves every segment's target cell and the chain
\* length as they were before the tick.
C1_DeathTickMutatesNothing ==
    [][(IsTick /\ (OffBoard(CandidateCell) \/ HitsBodyButTail))
         => (SignalsDeath /\ snakeSegments' = snakeSegments)]_vars

\* C2: on a tick whose candidate cell is on the board and is the target cell of
\* no segment but the tail, the chain length is unchanged, every non-head
\* segment takes the target cell its predecessor held before the tick, and the
\* head takes the candidate cell.
C2_MoveFollowsPredecessor ==
    [][(IsTick /\ ~OffBoard(CandidateCell) /\ ~HitsBodyButTail)
         => /\ Len(snakeSegments') = NumSegments
            /\ \A i \in 2 .. NumSegments : snakeSegments'[i] = snakeSegments[i - 1]
            /\ snakeSegments'[1] = CandidateCell]_vars

\* C2 witness: the chain is fully spread out after ticks without a death, so
\* every segment has followed its predecessor through distinct cells.
C2_Witness ==
    /\ ticks > NumStartGrowths
    /\ deathSignals = 0
    /\ AllDistinct

\* C3: a tick signals death if and only if the candidate cell is outside the
\* board or is the pre-tick target cell of a segment other than the tail; a
\* candidate cell held by the tail alone does not cause death.
C3_DeathIffIllegalMove ==
    [][IsTick => (SignalsDeath <=> (OffBoard(CandidateCell) \/ HitsBodyButTail))]_vars

\* C3 witness: after as many ticks as there are segments the head is back on
\* the start cell with no death and all cells distinct: the last tick moved
\* the head into the cell that only the tail held.
C3_Witness ==
    /\ ticks = NumSegments
    /\ deathSignals = 0
    /\ AllDistinct
    /\ snakeHeadSegment = getCenterCell

C5_HeadOnFoodEats ==
    [][(IsTick /\ snakeSegments'[1] = prey)
         => /\ Len(snakeSegments') = NumSegments + 1
            /\ score' = score + 1
            /\ (AllCells \ SegmentCells(snakeSegments') # {}
                  => prey' \in AllCells \ SegmentCells(snakeSegments'))]_vars

C7_FoodOffSnake ==
    prey = NoPrey \/ prey \notin SegmentCells(snakeSegments)

\* C8: the number of unoccupied cells drops by exactly one in a step where
\* food is eaten, and does not grow in a step from Playing to Playing.
C8_UnoccupiedShrinks ==
    [][/\ FoodEaten => NumUnoccupied' = NumUnoccupied - 1
       /\ (gameState = Playing /\ gameState' = Playing)
            => NumUnoccupied' <= NumUnoccupied]_vars

IsReset == gameState' = MainMenu /\ gameState # MainMenu
\* the chain segs has n segments, all on the board's centre cell
ChainOnCentre(segs, n) ==
    /\ Len(segs) = n
    /\ \A i \in 1 .. Len(segs) :
         segs[i] = <<BoardNumCellsWide \div 2, BoardNumCellsWide \div 2>>

\* C11 as claimed: at construction and after every return to the main menu the
\* chain has as many segments in total as resetForStart has growSegment calls
\* (10 in the source), all on the centre cell.
C11_ResetChainTenTotal ==
    /\ ChainOnCentre(snakeSegments, NumStartGrowths)
    /\ [][IsReset => ChainOnCentre(snakeSegments', NumStartGrowths)]_vars

\* C11 amended: at construction and after every return to the main menu the
\* chain has the head plus one segment per growSegment call of resetForStart
\* (1 + 10 = 11 in the source), head first, all on the centre cell
\* (floor(N/2), floor(N/2)).
C11_ResetChainHeadPlusGrown ==
    /\ ChainOnCentre(snakeSegments, NumStartGrowths + 1)
    /\ [][IsReset => ChainOnCentre(snakeSegments', NumStartGrowths + 1)]_vars

\* C11 witness: the chain is back on the centre cell after a game that moved it
\* ended and Space returned to the main menu.
C11_Witness ==
    /\ lastKey = spaceCode
    /\ ChainOnCentre(snakeSegments, NumStartGrowths + 1)

C13_NoReversal ==
    /\ [](pendingDir = NoDir \/ Add(pendingDir, curDir) # <<0, 0>>)
    /\ [][IsTick => Add(curDir', curDir) # <<0, 0>>]_vars

\* C13 witness: two ticks without death that committed different directions
\* (the head has left both the row and the column of its start cell).
C13_Witness ==
    /\ ticks = 2
    /\ deathSignals = 0
    /\ snakeSegments[1][1] # snakeSegments[3][1]
    /\ snakeSegments[1][2] # snakeSegments[3][2]

C15_FirstTickSafe ==
    [][(IsTick /\ ticks = 0) =>
         /\ ~SignalsDeath
         /\ curDir' \in {<<0, -1>>, <<0, 1>>, <<-1, 0>>, <<1, 0>>}
         /\ snakeSegments'[1] =
              <<BoardNumCellsWide \div 2 + curDir'[1],
                BoardNumCellsWide \div 2 + curDir'[2]>>
         /\ \A i \in 2 .. Len(snakeSegments') :
              snakeSegments'[i] =
                <<BoardNumCellsWide \div 2, BoardNumCellsWide \div 2>>]_vars

\* C15 witness: after the first tick, moving Up, the head is one cell above the
\* centre and the game goes on.
C15_Witness ==
    /\ ticks = 1
    /\ gameState = Playing
    /\ snakeSegments[1] = <<BoardNumCellsWide \div 2, BoardNumCellsWide \div 2 - 1>>
    /\ snakeSegments[2] = <<BoardNumCellsWide \div 2, BoardNumCellsWide \div 2>>

\* C16: target cells change only in a tick or a reset.  A step that is neither
\* (a frame or a key) changes no target cell, nor the chain length, the score
\* or the food cell; if it changes draw positions (a frame) it changes nothing
\* else of the game, and if it changes the buffered direction while Playing (a
\* key) it changes neither the draw positions nor the game state.
C16_FramesAndKeysKeepTargets ==
    [][/\ snakeSegments' # snakeSegments => (IsTick \/ IsReset)
       /\ (~IsTick /\ ~IsReset) =>
            /\ UNCHANGED <<snakeSegments, score, prey, deathSignals>>
            /\ drawCellPos' # drawCellPos =>
                 UNCHANGED <<gameState, curDir, pendingDir, timers>>
            /\ (gameState = Playing /\ pendingDir' # pendingDir) =>
                 UNCHANGED <<gameState, curDir, drawCellPos, timers>>]_vars

\* C16 witness: while Playing, after a tick, a frame has brought the draw
\* positions onto the moved target cells and a key has buffered a direction.
C16_Witness ==
    /\ gameState = Playing
    /\ ticks > 0
    /\ staleTicks = 0
    /\ drawCellPos = snakeSegments
    /\ pendingDir # NoDir

C18_SegmentsOnBoard ==
    \A i \in 1 .. NumSegments : ~OffBoard(snakeSegments[i])

\* two cells that are the same or share an edge
SameOrAdjacent(a, b) ==
    LET dx == IF a[1] >= b[1] THEN a[1] - b[1] ELSE b[1] - a[1]
        dy == IF a[2] >= b[2] THEN a[2] - b[2] ELSE b[2] - a[2]
    IN  dx + dy <= 1

=============================================================================
